---- MODULE Spec2Model ----
(***************************************************************************)
(* The market relevance matching engine of VinnieTheVig:                   *)
(*   - LLMMarketMatcher.find_best_markets     (batched scoring, archive)   *)
(*   - LLMMarketMatcherV2.find_best_markets   (two-stage matching)         *)
(*   - calculate_market_relevance             (heuristic scorer)           *)
(*   - search_markets / select_best_market    (API search and selection)   *)
(* Scores are integers in hundredths (0.55 is 55) wherever the code        *)
(* handles values it received from the reasoning service; the heuristic    *)
(* scorer is computed in exact rationals over a common denominator.        *)
(***************************************************************************)
EXTENDS Integers, Sequences, FiniteSets, TLC

\* ------------------------------------------------------------------ state
\* LLMMarketMatcher.find_best_markets
VARIABLES
  markets,        \* the candidate list (unique ids, input order)
  top_k,          \* the top_k argument
  m_pc,           \* position of find_best_markets
  query_context,  \* what analyze_query returned
  context_answer, \* what the query_analyzer call answered
  futures,        \* future_to_batch: per batch its state and result
  all_scores,     \* the score list, in append order
  m_result,       \* the returned list
  single_calls,   \* market id -> number of market_scorer calls issued
  batch_calls     \* batch number -> the answers of its batch_scorer calls

mVars == <<markets, top_k, m_pc, query_context, context_answer, futures,
           all_scores, m_result, single_calls, batch_calls>>

\* LLMMarketMatcherV2.find_best_markets and score_market
VARIABLES
  v_pc,          \* position of find_best_markets
  v_available,   \* available_categories
  v_mbc,         \* markets_by_category: category key -> list of market dicts
  v_top_k,       \* top_k
  v_selected,    \* selected_categories
  v_candidates,  \* candidate_markets
  v_i,           \* index of the stage-2 loop
  v_matches,     \* matches
  v_result,      \* the returned list
  v_calls,       \* the calls issued to the reasoning service, in order
  sm             \* one stand-alone score_market call: raw answer and result

vVars == <<v_pc, v_available, v_mbc, v_top_k, v_selected, v_candidates, v_i,
           v_matches, v_result, v_calls>>

smVars == <<sm>>

\* calculate_market_relevance
VARIABLES
  h              \* one call: the query, the market record and the outcome

hVars == <<h>>

\* search_markets of the API, and the flow that calls it
VARIABLES
  api,           \* one request to GET /markets/search
  flow           \* analyze_query: candidates, selector answer, selection

sVars == <<api, flow>>

\* calculate_market_relevance over the resolution months of one market
VARIABLES
  tc             \* the query, the market, the clock and the score per month

tVars == <<tc>>

vars == <<mVars, vVars, smVars, hVars, sVars, tVars>>
\* what the actions of one component leave alone
NotM == <<vVars, smVars, hVars, sVars, tVars>>
NotV == <<mVars, smVars, hVars, sVars, tVars>>
NotSM == <<mVars, vVars, hVars, sVars, tVars>>
NotH == <<mVars, vVars, smVars, sVars, tVars>>
NotS == <<mVars, vVars, smVars, hVars, tVars>>
NotT == <<mVars, vVars, smVars, hVars, sVars>>

\* ------------------------------------------------------------------ bounds
\* Largest candidate list handed to LLMMarketMatcher.find_best_markets.
MaxMarkets == 61
\* Largest number of rows in the markets table.
MaxRows == 3
\* Score patterns the reasoning service may answer with (0 .. MaxPattern).
MaxPattern == 1

\* ------------------------------------------------------- program constants
\* batch_size = 20
batch_size == 20
\* ThreadPoolExecutor(max_workers=3)
max_workers == 3
\* top_k: int = 10
top_k_default == 10

\* ----------------------------------------------------------------- helpers
Min2(a, b) == IF a <= b THEN a ELSE b
Max2(a, b) == IF a >= b THEN a ELSE b

\* score = max(0.0, min(1.0, score)), in hundredths
Clamp01(score) == Max2(0, Min2(100, score))

\* seq[:k]
Take(seq, k) == SubSeq(seq, 1, Min2(Len(seq), Max2(k, 0)))

\* list.sort(key=..., reverse=True) over the keys of a list: the stable
\* descending order, as the sequence of positions of the input.
RankDesc(keys) ==
  [j \in 1..Len(keys) |->
     Cardinality({i \in 1..Len(keys) :
                    keys[i] > keys[j] \/ (keys[i] = keys[j] /\ i < j)}) + 1]
SortOrder(keys) ==
  CHOOSE order \in {[p \in 1..Len(keys) |->
                       CHOOSE j \in 1..Len(keys) : rank[j] = p] :
                     rank \in {RankDesc(keys)}} : TRUE
\* (first a sort that leaves the list as it is)
SortDesc_Unsorted(seq, keys) == seq
SortDesc(seq, keys) ==
  CHOOSE out \in {[p \in 1..Len(seq) |-> seq[order[p]]] :
                   order \in {SortOrder(keys)}} : TRUE

\* ======================================================================
\* LLMMarketMatcher (src/flows/archive/llm_market_matcher.py)
\* ======================================================================
MarketCounts == {0, 1, batch_size + 1, MaxMarkets}
TopKs == {1, top_k_default}
ScorePatterns == 0..MaxPattern

\* The raw relevance score the reasoning service gives market i under
\* pattern p, in hundredths; it may lie outside [0, 100].
RawScore(p, i) == IF p = 0 THEN 50 ELSE ((i * (30 + 7 * p)) % 140) - 20

\* batches.append((batch_num, total_batches, markets[i:i + batch_size]))
\* (first a count that leaves out a last, shorter batch)
NumBatches_Floor(ms) == Len(ms) \div batch_size
NumBatches(ms) == (Len(ms) + batch_size - 1) \div batch_size
Batch(ms, b) ==
  SubSeq(ms, (b - 1) * batch_size + 1, Min2(Len(ms), b * batch_size))

\* How the parsed scores_json of one batch may be shaped.
Defects == {"none", "omitted", "no_id", "bad_score", "unhashable_id"}

\* One element of scores_json for market id i.
ScoreItem(p, i, defect) ==
  [id          |-> i,
   has_id      |-> defect # "no_id",
   id_hashable |-> defect # "unhashable_id",
   score_ok    |-> defect # "bad_score",
   score       |-> RawScore(p, i)]

\* scores_json for a batch: one item per market, the defect hitting the
\* batch's first market.
ScoresJson(batch, p, defect) ==
  LET all == [k \in 1..Len(batch) |->
                ScoreItem(p, batch[k], IF k = 1 THEN defect ELSE "none")]
  IN  IF defect = "omitted" THEN Tail(all) ELSE all

\* The answers the batch_scorer call can give.  With more than two batches
\* in the call the enumeration is limited to a failed call and a complete
\* list; with one or two batches every defect is drawn as well.
BatchResponses(ms) ==
  {[kind |-> "exception", pattern |-> 0, defect |-> "none"]}
  \cup {[kind |-> "list", pattern |-> p, defect |-> "none"] :
      p \in ScorePatterns}
  \cup IF NumBatches(ms) > 2 THEN {}
       ELSE {[kind |-> "invalid_json", pattern |-> 0, defect |-> "none"]}
            \cup {[kind |-> "list", pattern |-> p, defect |-> d] :
                    p \in ScorePatterns, d \in Defects}

\* The answers the market_scorer calls of one fallback pass can give.
NoRaise == [pattern |-> 0, first_raises |-> FALSE]
SingleResponses(ms) ==
  IF NumBatches(ms) > 2 THEN {NoRaise}
  ELSE {[pattern |-> p, first_raises |-> r] :
          p \in ScorePatterns, r \in BOOLEAN}

\* score_single_market: (score, reasoning)
score_single_market(i, raises, p) ==
  IF raises
    THEN [market_id |-> i, id_hashable |-> TRUE, relevance_score |-> 0,
          reasoning |-> "Error in scoring"]
    ELSE [market_id |-> i, id_hashable |-> TRUE,
          relevance_score |-> Clamp01(RawScore(p, i)),
          reasoning |-> "single"]

\* _fallback_individual_scoring
fallback_individual_scoring(batch, sr) ==
  [k \in 1..Len(batch) |->
     score_single_market(batch[k], sr.first_raises /\ k = 1, sr.pattern)]

\* The "for score_item in scores_data" loop of score_markets_batch: an item
\* whose score does not parse or that carries no id is skipped.
ParseScores(items) ==
  LET good == SelectSeq(items, LAMBDA it : it.score_ok /\ it.has_id)
  IN  [k \in 1..Len(good) |->
         [market_id       |-> good[k].id,
          id_hashable     |-> good[k].id_hashable,
          relevance_score |-> Clamp01(good[k].score),
          reasoning       |-> "batch"]]

\* Does score_markets_batch take its except branch?
\* (first a variant that takes it for every answer)
BatchCallFails_Always(resp) == resp.kind \in {"exception", "invalid_json", "list"}
BatchCallFails(resp) == resp.kind \in {"exception", "invalid_json"}

\* score_markets_batch without the fallback of its except branch
score_markets_batch_NoFallback(batch, resp, sr) ==
  IF batch = <<>> \/ BatchCallFails(resp) THEN <<>>
  ELSE ParseScores(ScoresJson(batch, resp.pattern, resp.defect))

score_markets_batch(batch, resp, sr) ==
  IF batch = <<>> THEN <<>>
  ELSE IF BatchCallFails(resp) THEN fallback_individual_scoring(batch, sr)
  ELSE ParseScores(ScoresJson(batch, resp.pattern, resp.defect))

\* score_map = {score['market_id']: score ...}: raises TypeError on an
\* unhashable id; later items overwrite earlier ones.
\* (first a mapping that raises for every result list)
ScoreMapRaises_Always(batch_scores) == TRUE
ScoreMapRaises(batch_scores) ==
  \E k \in 1..Len(batch_scores) : ~batch_scores[k].id_hashable
ScoreMapKeys(batch_scores) ==
  {batch_scores[k].market_id : k \in 1..Len(batch_scores)}
ScoreMapGet(batch_scores, i) ==
  LET ks == {k \in 1..Len(batch_scores) : batch_scores[k].market_id = i}
  IN  batch_scores[CHOOSE k \in ks : \A j \in ks : j <= k]

Tuple(e) == [market |-> e.market_id, score |-> e.relevance_score,
             reasoning |-> e.reasoning]

\* "for market in batch: if market.id in score_map: all_scores.append(...)"
MapScores(batch, batch_scores) ==
  LET keys == ScoreMapKeys(batch_scores)
      hit == SelectSeq(batch, LAMBDA i : i \in keys)
  IN  [k \in 1..Len(hit) |-> Tuple(ScoreMapGet(batch_scores, hit[k]))]

\* the except branch of the collection loop
CollectFallback(batch, sr) ==
  LET r == fallback_individual_scoring(batch, sr)
  IN  [k \in 1..Len(r) |-> Tuple(r[k])]

Scores(seq) == [k \in 1..Len(seq) |-> seq[k].score]

\* What the query_analyzer call can answer: it raises, it gives entities or
\* price_targets that have no split(), it gives a field QueryContext
\* rejects, or it gives five strings.
\* With more than two batches in the call the enumeration is limited to a
\* failed call and a well-formed answer.
ContextAnswers(n) ==
  {"exception", "strings"}
  \cup IF n > 2 * batch_size THEN {} ELSE {"not_splittable", "rejected_field"}
\* analyze_query: the extracted context, or the fallback context built
\* from the query alone
\* (first a variant without the except branch)
analyze_query_NoFallback(a) == IF a = "strings" THEN "extracted" ELSE "raised"
analyze_query(a) == IF a = "strings" THEN "extracted" ELSE "fallback"

MInit ==
  /\ markets = <<>>
  /\ top_k = top_k_default
  /\ m_pc = "idle"
  /\ query_context = "none"
  /\ context_answer = "none"
  /\ futures = <<>>
  /\ all_scores = <<>>
  /\ m_result = <<>>
  /\ single_calls = <<>>
  /\ batch_calls = <<>>

\* find_best_markets up to the end of the submit loop: the empty-list
\* return, analyze_query (with its fallback context), batching, submit.
FindBestMarkets ==
  /\ m_pc = "idle"
  /\ \E n \in MarketCounts, k \in TopKs : \E a \in ContextAnswers(n) :
       /\ markets' = [i \in 1..n |-> i]
       /\ top_k' = k
       /\ single_calls' = [i \in 1..n |-> 0]
       /\ batch_calls' = [b \in 1..NumBatches(markets') |-> <<>>]
       /\ futures' = [b \in 1..NumBatches(markets') |->
                        [state |-> "pending", result |-> <<>>]]
       /\ IF n = 0
            THEN /\ m_pc' = "done"
                 /\ query_context' = "none"
                 /\ context_answer' = "none"
            ELSE /\ query_context' = analyze_query(a)
                 /\ context_answer' = a
                 /\ m_pc' = IF query_context' = "raised" THEN "raised"
                                                          ELSE "collecting"
  /\ UNCHANGED <<all_scores, m_result>>
  /\ UNCHANGED NotM

Running == {b \in DOMAIN futures : futures[b].state = "running"}

\* A pool thread takes the oldest queued task.
WorkerStart(b) ==
  /\ m_pc = "collecting"
  /\ futures[b].state = "pending"
  /\ \A a \in DOMAIN futures : a < b => futures[a].state # "pending"
  /\ Cardinality(Running) < max_workers
  /\ futures' = [futures EXCEPT ![b].state = "running"]
  /\ UNCHANGED <<markets, top_k, m_pc, query_context, context_answer,
                 all_scores, m_result, single_calls, batch_calls>>
  /\ UNCHANGED NotM

\* _score_batch_with_logging -> score_markets_batch, run to completion.
WorkerFinish(b) ==
  /\ m_pc = "collecting"
  /\ futures[b].state = "running"
  /\ \E resp \in BatchResponses(markets),
        sr \in SingleResponses(markets) :
       LET batch == Batch(markets, b) IN
       /\ BatchCallFails(resp) \/ sr = NoRaise
       /\ futures' = [futures EXCEPT
                        ![b] = [state |-> "finished",
                                result |-> score_markets_batch(batch, resp, sr)]]
       /\ batch_calls' = [batch_calls EXCEPT ![b] = Append(@, resp)]
       /\ single_calls' =
            IF BatchCallFails(resp)
              THEN [i \in DOMAIN single_calls |->
                      IF \E k \in 1..Len(batch) : batch[k] = i
                        THEN single_calls[i] + 1 ELSE single_calls[i]]
              ELSE single_calls
  /\ UNCHANGED <<markets, top_k, m_pc, query_context, context_answer,
                 all_scores, m_result>>
  /\ UNCHANGED NotM

\* One iteration of "for future in as_completed(future_to_batch)".
Collect(b) ==
  /\ m_pc = "collecting"
  /\ futures[b].state = "finished"
  /\ LET batch == Batch(markets, b)
         batch_scores == futures[b].result
     IN  IF ScoreMapRaises(batch_scores)
           THEN \E sr \in SingleResponses(markets) :
                  /\ all_scores' = all_scores \o CollectFallback(batch, sr)
                  /\ single_calls' =
                       [i \in DOMAIN single_calls |->
                          IF \E k \in 1..Len(batch) : batch[k] = i
                            THEN single_calls[i] + 1 ELSE single_calls[i]]
           ELSE /\ all_scores' = all_scores \o MapScores(batch, batch_scores)
                /\ UNCHANGED single_calls
  /\ futures' = [futures EXCEPT ![b].state = "collected"]
  /\ UNCHANGED <<markets, top_k, m_pc, query_context, context_answer,
                 m_result, batch_calls>>
  /\ UNCHANGED NotM

\* all_scores.sort(key=lambda x: x[1], reverse=True); return all_scores[:top_k]
Return ==
  /\ m_pc = "collecting"
  /\ \A b \in DOMAIN futures : futures[b].state = "collected"
  /\ all_scores' = SortDesc(all_scores, Scores(all_scores))
  /\ m_result' = Take(all_scores', top_k)
  /\ m_pc' = "done"
  /\ UNCHANGED <<markets, top_k, query_context, context_answer, futures,
                 single_calls, batch_calls>>
  /\ UNCHANGED NotM

MNext ==
  \/ FindBestMarkets
  \/ \E b \in DOMAIN futures : WorkerStart(b)
  \/ \E b \in DOMAIN futures : WorkerFinish(b)
  \/ \E b \in DOMAIN futures : Collect(b)
  \/ Return

\* ======================================================================
\* LLMMarketMatcherV2 (src/flows/llm_market_matcher_v2.py)
\* ======================================================================
\* bounds
\* Largest number of markets in markets_by_category.
MaxV2Markets == 2
\* Raw scores of the stand-alone scoring call: -10, -5, ..., 5*MaxRawStep-10.
MaxRawStep == 24

Tiers == {"HIGH", "MEDIUM", "LOW"}
\* lower and upper end of each tier's band, and the value used on a mismatch
BandLow(tier)  == IF tier = "HIGH" THEN 80 ELSE IF tier = "MEDIUM" THEN 40 ELSE 0
BandHigh(tier) == IF tier = "HIGH" THEN 100 ELSE IF tier = "MEDIUM" THEN 70 ELSE 30
\* a mismatch value that leaves the MEDIUM band
BandMid_OffBand(tier) == IF tier = "HIGH" THEN 90 ELSE IF tier = "MEDIUM" THEN 75 ELSE 20
BandMid(tier)  == IF tier = "HIGH" THEN 90 ELSE IF tier = "MEDIUM" THEN 55 ELSE 20

\* What the market_scorer call can answer: it raises, or gives a tier (one
\* of the three labels, another string, or no string at all) and a score (a
\* number in hundredths, or something that is no number).
TierAnswers == Tiers \cup {"high", "<not a string>"}
ScoreAnswer(raises, tier, score, is_num) ==
  [raises |-> raises, tier |-> tier, tier_is_str |-> tier # "<not a string>",
   score |-> score, score_is_num |-> is_num]
RaisingAnswer == ScoreAnswer(TRUE, "LOW", 0, TRUE)
RawScoreValues == {5 * k - 10 : k \in 0..MaxRawStep}
ScoreAnswers ==
  {RaisingAnswer}
  \cup {ScoreAnswer(FALSE, t, x, TRUE) : t \in TierAnswers, x \in RawScoreValues}
  \cup {ScoreAnswer(FALSE, t, 0, FALSE) : t \in TierAnswers}
\* the answers drawn inside find_best_markets
V2RawScoreValues == {20, 55, 90, 150}
V2ScoreAnswers ==
  {a \in ScoreAnswers :
     a.raises \/ (a.score_is_num => a.score \in V2RawScoreValues)}

\* score_market: (tier, score, reasoning).  Comparing a score that is no
\* number raises inside the try block, which only happens once the tier
\* equals one of the three labels.
Scored(tier, tier_is_str, score, is_num, reasoning) ==
  [tier |-> tier, tier_is_str |-> tier_is_str, score |-> score,
   score_is_num |-> is_num, reasoning |-> reasoning]
ScoringError == Scored("LOW", TRUE, 10, TRUE, "Scoring error")
score_market(a) ==
  IF a.raises THEN ScoringError
  ELSE IF a.tier \in Tiers /\ ~a.score_is_num THEN ScoringError
  ELSE IF a.tier \in Tiers
            /\ ~(BandLow(a.tier) <= a.score /\ a.score <= BandHigh(a.tier))
         THEN Scored(a.tier, TRUE, BandMid(a.tier), TRUE, "llm")
  ELSE Scored(a.tier, a.tier_is_str, a.score, a.score_is_num, "llm")

\* What the relevance_checker call can answer.
RelevanceAnswers ==
  {[raises |-> TRUE, is_relevant |-> FALSE, keywords_is_list |-> TRUE]}
  \cup {[raises |-> FALSE, is_relevant |-> r, keywords_is_list |-> k] :
          r \in BOOLEAN, k \in BOOLEAN}

\* check_relevance: (is_relevant, keywords_matched)
\* (first a fallback that lets the candidate through)
check_relevance_FailOpen(a) ==
  IF a.raises THEN [is_relevant |-> TRUE, keywords_is_list |-> TRUE]
  ELSE [is_relevant |-> a.is_relevant, keywords_is_list |-> a.keywords_is_list]
check_relevance(a) ==
  IF a.raises THEN [is_relevant |-> FALSE, keywords_is_list |-> TRUE]
  ELSE [is_relevant |-> a.is_relevant, keywords_is_list |-> a.keywords_is_list]

\* What the category_selector call can answer: it raises, gives something
\* len() rejects, or gives a list.
CategoryAnswers ==
  {"exception", "not_sized", "all", "empty", "first", "first_twice", "unknown"}

\* select_categories: the selected list
select_categories(a, available) ==
  IF a \in {"exception", "not_sized"} THEN available
  ELSE IF a = "all" THEN available
  ELSE IF a = "first" THEN Take(available, 1)
  ELSE IF a = "first_twice" THEN Take(available, 1) \o Take(available, 1)
  ELSE IF a = "unknown" THEN <<"Weather">>
  ELSE <<>>

\* The catalogs handed to the matcher, as search_markets groups them: the
\* key of a market without a category is the null key, and the null key is
\* not among the available categories.
NullKey == "<null>"
CatalogShapes == {"one_category", "two_categories", "first_uncategorised"}
KeyOf(shape, k) ==
  IF shape = "first_uncategorised" /\ k = 1 THEN NullKey
  ELSE IF shape = "two_categories" /\ k % 2 = 0 THEN "Politics"
  ELSE "Crypto"
CategoryOrder == <<"Crypto", "Politics", NullKey>>
MarketDict(shape, k, tagged) ==
  [market_id |-> k, category |-> IF tagged THEN KeyOf(shape, k) ELSE "<absent>"]
GroupByCategory(shape, n, tagged) ==
  [c \in {KeyOf(shape, k) : k \in 1..n} |->
     LET ks == SelectSeq([k \in 1..n |-> k], LAMBDA k : KeyOf(shape, k) = c)
     IN  [j \in 1..Len(ks) |-> MarketDict(shape, ks[j], tagged)]]
DistinctCategories(shape, n) ==
  SelectSeq(CategoryOrder,
            LAMBDA c : c # NullKey /\ c \in {KeyOf(shape, k) : k \in 1..n})

\* "for category in selected_categories: if category in markets_by_category"
\* the markets of the first j selected categories, each tagged
\* (first a gathering that does not test "category in markets_by_category"
\* and takes a placeholder record for a category it does not know)
RECURSIVE Gather_Unchecked(_, _, _)
Gather_Unchecked(selected, mbc, j) ==
  IF j = 0 THEN <<>>
  ELSE LET c == selected[j]
           here == IF c \in DOMAIN mbc
                     THEN [k \in 1..Len(mbc[c]) |->
                             [mbc[c][k] EXCEPT !.category = c]]
                     ELSE <<[market_id |-> 0, category |-> c]>>
       IN  Gather_Unchecked(selected, mbc, j - 1) \o here
RECURSIVE Gather(_, _, _)
Gather(selected, mbc, j) ==
  IF j = 0 THEN <<>>
  ELSE LET c == selected[j]
           here == IF c \in DOMAIN mbc
                     THEN [k \in 1..Len(mbc[c]) |->
                             [mbc[c][k] EXCEPT !.category = c]]
                     ELSE <<>>
       IN  Gather(selected, mbc, j - 1) \o here

\* market['category'] = category, as seen through markets_by_category
Tagged(selected, mbc) ==
  [c \in DOMAIN mbc |->
     IF \E j \in 1..Len(selected) : selected[j] = c
       THEN [k \in 1..Len(mbc[c]) |-> [mbc[c][k] EXCEPT !.category = c]]
       ELSE mbc[c]]

\* "if not is_relevant: continue": does the loop go on to score_market?
\* (first a loop that scores every candidate)
GoesOnToScoring_Always(rel) == TRUE
GoesOnToScoring(rel) == rel.is_relevant

\* MarketMatch(...): pydantic validation of the constructed match
MarketMatchValid(scored, keywords_is_list) ==
  /\ scored.tier_is_str
  /\ scored.score_is_num
  /\ 0 <= scored.score /\ scored.score <= 100
  /\ keywords_is_list

VInit ==
  /\ v_pc = "idle"
  /\ v_available = <<>>
  /\ v_mbc = <<>>
  /\ v_top_k = top_k_default
  /\ v_selected = <<>>
  /\ v_candidates = <<>>
  /\ v_i = 0
  /\ v_matches = <<>>
  /\ v_result = <<>>
  /\ v_calls = <<>>

SMInit == sm = [pc |-> "idle"]

\* A call of find_best_markets with its arguments.
V2Call ==
  /\ v_pc = "idle"
  /\ \E shape \in CatalogShapes, n \in 0..MaxV2Markets, tagged \in BOOLEAN,
        k \in TopKs :
       /\ shape = "first_uncategorised" => tagged
       /\ v_mbc' = GroupByCategory(shape, n, tagged)
       /\ v_available' = DistinctCategories(shape, n)
       /\ v_top_k' = k
  /\ v_pc' = "stage1"
  /\ UNCHANGED <<v_selected, v_candidates, v_i, v_matches, v_result, v_calls>>
  /\ UNCHANGED NotV

\* Stage 1: select_categories and the gathering of candidate_markets.
V2Stage1 ==
  /\ v_pc = "stage1"
  /\ \E a \in CategoryAnswers :
       LET selected == select_categories(a, v_available) IN
       /\ v_selected' = selected
       /\ v_candidates' = Gather(selected, v_mbc, Len(selected))
       /\ v_mbc' = Tagged(selected, v_mbc)
       /\ v_calls' = Append(v_calls,
            [call |-> "select_categories", market |-> 0,
             failed |-> a \in {"exception", "not_sized"}, returned |-> TRUE])
  /\ v_i' = 1
  /\ v_pc' = "stage2"
  /\ UNCHANGED <<v_available, v_top_k, v_matches, v_result>>
  /\ UNCHANGED NotV

\* One iteration of the stage-2 loop: check_relevance, then score_market and
\* the construction of the MarketMatch, whose validation error propagates.
V2Candidate ==
  /\ v_pc = "stage2"
  /\ v_i <= Len(v_candidates)
  /\ \E ra \in RelevanceAnswers, sa \in V2ScoreAnswers :
       LET market == v_candidates[v_i]
           rel == check_relevance(ra)
           scored == score_market(sa)
           rcall == [call |-> "check_relevance", market |-> market.market_id,
                     failed |-> ra.raises, returned |-> rel.is_relevant]
           scall == [call |-> "score_market", market |-> market.market_id,
                     failed |-> sa.raises, returned |-> TRUE]
       IN  IF ~GoesOnToScoring(rel)
             THEN /\ sa = RaisingAnswer
                  /\ v_calls' = Append(v_calls, rcall)
                  /\ v_pc' = "stage2"
                  /\ UNCHANGED v_matches
             ELSE /\ v_calls' = v_calls \o <<rcall, scall>>
                  /\ IF MarketMatchValid(scored, rel.keywords_is_list)
                       THEN /\ v_matches' = Append(v_matches,
                                 [market_id |-> market.market_id,
                                  category |-> market.category,
                                  score |-> scored.score,
                                  relevance_tier |-> scored.tier,
                                  reasoning |-> scored.reasoning])
                            /\ v_pc' = "stage2"
                       ELSE /\ v_pc' = "raised"
                            /\ UNCHANGED v_matches
  /\ v_i' = v_i + 1
  /\ UNCHANGED <<v_available, v_mbc, v_top_k, v_selected, v_candidates, v_result>>
  /\ UNCHANGED NotV

\* matches.sort(key=lambda x: x.relevance_score, reverse=True)
\* return matches[:top_k]
V2Return ==
  /\ v_pc = "stage2"
  /\ v_i > Len(v_candidates)
  /\ v_matches' = SortDesc(v_matches, Scores(v_matches))
  /\ v_result' = Take(v_matches', v_top_k)
  /\ v_pc' = "done"
  /\ UNCHANGED <<v_available, v_mbc, v_top_k, v_selected, v_candidates, v_i,
                 v_calls>>
  /\ UNCHANGED NotV

V2Next == V2Call \/ V2Stage1 \/ V2Candidate \/ V2Return

\* A stand-alone call of score_market.
ScoreMarket ==
  /\ sm.pc = "idle"
  /\ \E a \in ScoreAnswers :
       sm' = [pc |-> "done", raw |-> a, out |-> score_market(a)]
  /\ UNCHANGED NotSM

SMNext == ScoreMarket

\* ======================================================================
\* calculate_market_relevance (api/main.py)
\* Text is a sequence of characters.  A score is an exact rational
\* num / den, the weights of the code being multiples of 1/1000; the
\* code adds the same terms in binary floating point, which differs from
\* the rational by rounding only.
\* ======================================================================
\* None, where the code reads an optional text field
NoneText == <<"None">>
UpperLetters == <<"A", "B", "C", "D", "E", "F", "G", "H", "I", "J", "K", "L", "M", "N", "O", "P", "Q", "R", "S", "T", "U", "V", "W", "X", "Y", "Z">>
LowerLetters == <<"a", "b", "c", "d", "e", "f", "g", "h", "i", "j", "k", "l", "m", "n", "o", "p", "q", "r", "s", "t", "u", "v", "w", "x", "y", "z">>
\* the characters the pattern \w matches
WordChars ==
  {UpperLetters[k] : k \in 1..Len(UpperLetters)}
  \cup {LowerLetters[k] : k \in 1..Len(LowerLetters)}
  \cup {"0", "1", "2", "3", "4", "5", "6", "7", "8", "9", "_"}

\* str.lower()
lower(s) ==
  [k \in 1..Len(s) |->
     IF \E u \in 1..Len(UpperLetters) : UpperLetters[u] = s[k]
       THEN LowerLetters[CHOOSE u \in 1..Len(UpperLetters) : UpperLetters[u] = s[k]]
       ELSE s[k]]

\* str.strip()
strip(s) ==
  LET inked == {k \in 1..Len(s) : s[k] # " "}
  IN  IF inked = {} THEN <<>>
      ELSE SubSeq(s, CHOOSE a \in inked : \A k \in inked : a <= k,
                     CHOOSE b \in inked : \A k \in inked : k <= b)

\* needle in hay
Contains(hay, needle) ==
  \E i \in 1..(Len(hay) - Len(needle) + 1) :
     \A k \in 1..Len(needle) : hay[i + k - 1] = needle[k]

\* set(re.findall(r'\b\w+\b', s)): the maximal runs of word characters
findall_words(s) ==
  LET word(k) == s[k] \in WordChars
      starts == {i \in 1..Len(s) : word(i) /\ (i = 1 \/ ~word(i - 1))}
      ends == {j \in 1..Len(s) : word(j) /\ (j = Len(s) \/ ~word(j + 1))}
  IN  {SubSeq(s, i, CHOOSE j \in ends : j >= i /\ \A e \in ends : e >= i => j <= e) :
         i \in starts}

\* The loops of levenshtein_ratio run over a range lo..hi, a range of more
\* than one index as its two halves in turn.
\* the inner loop: current_row after the columns lo..hi of s2
RECURSIVE levenshtein_row(_, _, _, _, _, _)
levenshtein_row(previous_row, c1, s2, lo, hi, current_row) ==
  IF lo > hi THEN current_row
  ELSE IF lo = hi
    THEN LET insertions == previous_row[lo + 1] + 1
             deletions == current_row[lo] + 1
             substitutions == previous_row[lo] + (IF c1 # s2[lo] THEN 1 ELSE 0)
         IN  Append(current_row, Min2(insertions, Min2(deletions, substitutions)))
    ELSE CHOOSE row \in
           {levenshtein_row(previous_row, c1, s2, (lo + hi) \div 2 + 1, hi, half) :
              half \in {levenshtein_row(previous_row, c1, s2, lo, (lo + hi) \div 2,
                                        current_row)}} : TRUE

\* the outer loop: previous_row after the characters lo..hi of s1
RECURSIVE levenshtein_rows(_, _, _, _, _)
levenshtein_rows(s1, s2, lo, hi, previous_row) ==
  IF lo > hi THEN previous_row
  ELSE IF lo = hi
    THEN levenshtein_row(previous_row, s1[lo], s2, 1, Len(s2), <<lo>>)
    ELSE CHOOSE row \in
           {levenshtein_rows(s1, s2, (lo + hi) \div 2 + 1, hi, half) :
              half \in {levenshtein_rows(s1, s2, lo, (lo + hi) \div 2,
                                         previous_row)}} : TRUE

\* levenshtein_ratio(s1, s2) = 1 - distance / max_len, as num / den
levenshtein_ratio(a, b) ==
  LET s1 == IF Len(a) < Len(b) THEN b ELSE a
      s2 == IF Len(a) < Len(b) THEN a ELSE b
  IN  IF Len(s2) = 0 THEN [num |-> 0, den |-> 1]
      ELSE [num |-> Len(s1) - levenshtein_rows(s1, s2, 1, Len(s1),
                                [k \in 1..Len(s2) + 1 |-> k - 1])[Len(s2) + 1],
            den |-> Len(s1)]

important_phrases ==
  <<<<"f", "e", "d", "e", "r", "a", "l", " ", "r", "e", "s", "e", "r", "v", "e">>,
   <<"i", "n", "t", "e", "r", "e", "s", "t", " ", "r", "a", "t", "e">>,
   <<"i", "n", "t", "e", "r", "e", "s", "t", " ", "r", "a", "t", "e", "s">>,
   <<"r", "a", "t", "e", " ", "c", "u", "t">>,
   <<"r", "a", "t", "e", " ", "c", "u", "t", "s">>,
   <<"r", "a", "t", "e", " ", "h", "i", "k", "e">>,
   <<"c", "h", "a", "m", "p", "i", "o", "n", "s", " ", "l", "e", "a", "g", "u", "e">>,
   <<"p", "r", "e", "m", "i", "e", "r", " ", "l", "e", "a", "g", "u", "e">>,
   <<"n", "b", "a", " ", "c", "h", "a", "m", "p", "i", "o", "n", "s", "h", "i", "p">>,
   <<"t", "h", "i", "s", " ", "y", "e", "a", "r">>,
   <<"b", "y", " ", "j", "u", "n", "e">>,
   <<"b", "y", " ", "e", "n", "d", " ", "o", "f">>,
   <<"e", "n", "d", " ", "o", "f", " ", "y", "e", "a", "r">>>>
year_2025_refs ==
  <<<<"2", "0", "2", "5">>,
   <<"t", "h", "i", "s", " ", "y", "e", "a", "r">>,
   <<"b", "y", " ", "e", "n", "d", " ", "o", "f", " ", "y", "e", "a", "r">>,
   <<"y", "e", "a", "r", " ", "e", "n", "d">>,
   <<"d", "e", "c", "e", "m", "b", "e", "r">>,
   <<"e", "n", "d", " ", "o", "f", " ", "t", "h", "e", " ", "y", "e", "a", "r">>>>
near_term_refs ==
  <<<<"j", "u", "n", "e">>,
   <<"j", "u", "l", "y">>,
   <<"a", "u", "g", "u", "s", "t">>,
   <<"s", "e", "p", "t", "e", "m", "b", "e", "r">>,
   <<"t", "h", "i", "s", " ", "m", "o", "n", "t", "h">>,
   <<"n", "e", "x", "t", " ", "m", "o", "n", "t", "h">>,
   <<"s", "o", "o", "n">>>>
\* each entry: <<term, the texts looked for in the title / category>>
synonym_map ==
  <<<<<<"t", "r", "u", "m", "p">>,
       <<<<"d", "o", "n", "a", "l", "d">>>>>>,
    <<<<"d", "o", "n", "a", "l", "d">>,
       <<<<"t", "r", "u", "m", "p">>>>>>,
    <<<<"b", "i", "t", "c", "o", "i", "n">>,
       <<<<"b", "t", "c">>,
         <<"c", "r", "y", "p", "t", "o">>>>>>,
    <<<<"b", "t", "c">>,
       <<<<"b", "i", "t", "c", "o", "i", "n">>,
         <<"c", "r", "y", "p", "t", "o">>>>>>,
    <<<<"c", "r", "y", "p", "t", "o">>,
       <<<<"b", "i", "t", "c", "o", "i", "n">>,
         <<"b", "t", "c">>,
         <<"c", "r", "y", "p", "t", "o", "c", "u", "r", "r", "e", "n", "c", "y">>>>>>,
    <<<<"e", "l", "e", "c", "t", "i", "o", "n">>,
       <<<<"v", "o", "t", "i", "n", "g">>,
         <<"v", "o", "t", "e">>,
         <<"e", "l", "e", "c", "t", "i", "o", "n", "s">>>>>>,
    <<<<"c", "h", "a", "m", "p", "i", "o", "n", "s", "h", "i", "p">>,
       <<<<"f", "i", "n", "a", "l", "s">>,
         <<"c", "h", "a", "m", "p", "i", "o", "n">>,
         <<"w", "i", "n", "n", "e", "r">>>>>>,
    <<<<"p", "r", "i", "c", "e">>,
       <<<<"v", "a", "l", "u", "e">>,
         <<"c", "o", "s", "t">>,
         <<"h", "i", "t">>,
         <<"r", "e", "a", "c", "h">>,
         <<"r", "e", "a", "c", "h", "i", "n", "g">>>>>>,
    <<<<"a", "i">>,
       <<<<"a", "r", "t", "i", "f", "i", "c", "i", "a", "l", " ", "i", "n", "t", "e", "l", "l", "i", "g", "e", "n", "c", "e">>>>>>,
    <<<<"a", "r", "t", "i", "f", "i", "c", "i", "a", "l", " ", "i", "n", "t", "e", "l", "l", "i", "g", "e", "n", "c", "e">>,
       <<<<"a", "i">>>>>>,
    <<<<"f", "e", "d", "e", "r", "a", "l", " ", "r", "e", "s", "e", "r", "v", "e">>,
       <<<<"f", "e", "d">>,
         <<"f", "o", "m", "c">>,
         <<"f", "e", "d", "e", "r", "a", "l">>,
         <<"r", "e", "s", "e", "r", "v", "e">>>>>>,
    <<<<"f", "e", "d">>,
       <<<<"f", "e", "d", "e", "r", "a", "l", " ", "r", "e", "s", "e", "r", "v", "e">>,
         <<"f", "o", "m", "c">>,
         <<"f", "e", "d", "e", "r", "a", "l">>,
         <<"r", "e", "s", "e", "r", "v", "e">>>>>>,
    <<<<"i", "n", "t", "e", "r", "e", "s", "t">>,
       <<<<"r", "a", "t", "e">>,
         <<"r", "a", "t", "e", "s">>>>>>,
    <<<<"r", "a", "t", "e">>,
       <<<<"i", "n", "t", "e", "r", "e", "s", "t">>,
         <<"r", "a", "t", "e", "s">>>>>>,
    <<<<"r", "a", "t", "e", "s">>,
       <<<<"i", "n", "t", "e", "r", "e", "s", "t">>,
         <<"r", "a", "t", "e">>>>>>,
    <<<<"n", "u", "c", "l", "e", "a", "r">>,
       <<<<"a", "t", "o", "m", "i", "c">>>>>>,
    <<<<"w", "a", "r">>,
       <<<<"c", "o", "n", "f", "l", "i", "c", "t">>,
         <<"f", "i", "g", "h", "t", "i", "n", "g">>>>>>,
    <<<<"t", "h", "i", "s", " ", "y", "e", "a", "r">>,
       <<<<"2", "0", "2", "5">>,
         <<"e", "n", "d", " ", "o", "f", " ", "y", "e", "a", "r">>,
         <<"y", "e", "a", "r", " ", "e", "n", "d">>>>>>,
    <<<<"y", "e", "a", "r">>,
       <<<<"2", "0", "2", "5">>>>>>,
    <<<<"2", "0", "0", "k">>,
       <<<<"2", "0", "0", "0", "0", "0">>,
         <<"$", "2", "0", "0", "k">>,
         <<"$", "2", "0", "0", ",", "0", "0", "0">>>>>>,
    <<<<"1", "2", "0", "k">>,
       <<<<"1", "2", "0", "0", "0", "0">>,
         <<"$", "1", "2", "0", "k">>,
         <<"$", "1", "2", "0", ",", "0", "0", "0">>>>>>,
    <<<<"1", "5", "0", "k">>,
       <<<<"1", "5", "0", "0", "0", "0">>,
         <<"$", "1", "5", "0", "k">>,
         <<"$", "1", "5", "0", ",", "0", "0", "0">>>>>>>>
category_map ==
  <<<<<<"t", "r", "u", "m", "p">>,
       <<<<"u", "s", "-", "c", "u", "r", "r", "e", "n", "t", "-", "a", "f", "f", "a", "i", "r", "s">>,
         <<"p", "o", "l", "i", "t", "i", "c", "s">>>>>>,
    <<<<"e", "l", "e", "c", "t", "i", "o", "n">>,
       <<<<"u", "s", "-", "c", "u", "r", "r", "e", "n", "t", "-", "a", "f", "f", "a", "i", "r", "s">>,
         <<"p", "o", "l", "i", "t", "i", "c", "s">>>>>>,
    <<<<"b", "i", "t", "c", "o", "i", "n">>,
       <<<<"c", "r", "y", "p", "t", "o">>>>>>,
    <<<<"n", "b", "a">>,
       <<<<"s", "p", "o", "r", "t", "s">>,
         <<"n", "b", "a">>>>>>,
    <<<<"b", "a", "s", "k", "e", "t", "b", "a", "l", "l">>,
       <<<<"s", "p", "o", "r", "t", "s">>,
         <<"n", "b", "a">>>>>>,
    <<<<"t", "e", "s", "l", "a">>,
       <<<<"t", "e", "c", "h">>,
         <<"s", "t", "o", "c", "k", "s">>>>>>,
    <<<<"s", "t", "o", "c", "k">>,
       <<<<"t", "e", "c", "h">>,
         <<"f", "i", "n", "a", "n", "c", "e">>>>>>,
    <<<<"f", "e", "d", "e", "r", "a", "l", " ", "r", "e", "s", "e", "r", "v", "e">>,
       <<<<"e", "c", "o", "n", "o", "m", "i", "c", "s">>,
         <<"f", "i", "n", "a", "n", "c", "e">>>>>>,
    <<<<"n", "u", "c", "l", "e", "a", "r">>,
       <<<<"g", "e", "o", "p", "o", "l", "i", "t", "i", "c", "s">>,
         <<"m", "i", "l", "i", "t", "a", "r", "y">>>>>>,
    <<<<"a", "i">>,
       <<<<"t", "e", "c", "h">>,
         <<"a", "r", "t", "i", "f", "i", "c", "i", "a", "l", " ", "i", "n", "t", "e", "l", "l", "i", "g", "e", "n", "c", "e">>>>>>,
    <<<<"r", "u", "s", "s", "i", "a">>,
       <<<<"g", "e", "o", "p", "o", "l", "i", "t", "i", "c", "s">>>>>>,
    <<<<"u", "k", "r", "a", "i", "n", "e">>,
       <<<<"g", "e", "o", "p", "o", "l", "i", "t", "i", "c", "s">>>>>>>>

\* the value of a term in a map, or the empty list
Lookup(map, term) ==
  IF \E e \in 1..Len(map) : map[e][1] = term
    THEN map[CHOOSE e \in 1..Len(map) : map[e][1] = term][2]
    ELSE <<>>
\* how many entries of a list occur in a text
CountIn(list, text) == Cardinality({k \in 1..Len(list) : Contains(text, list[k])})
\* the sum, over a set of terms, of CountIn(Lookup(map, term), text)
RECURSIVE Hits(_, _, _, _)
Hits(map, terms, text, is_lower) ==
  IF terms = {} THEN 0
  ELSE LET t == CHOOSE x \in terms : TRUE
           list == Lookup(map, t)
       IN  CountIn(IF is_lower THEN [k \in 1..Len(list) |-> lower(list[k])] ELSE list, text)
           + Hits(map, terms \ {t}, text, is_lower)

\* the end_date field: absent, a date, or a string fromisoformat rejects
NoDate == [kind |-> "none", year |-> 0, month |-> 0]
BadDate == [kind |-> "unparsable", year |-> 0, month |-> 0]
Date(y, m) == [kind |-> "date", year |-> y, month |-> m]

\* the bonus of a query about the year as a whole, in thousandths
\* (first one that prefers the early months)
year_end_bonus_Falling(market_month) ==
  IF market_month >= 11 THEN 0 - 200
  ELSE IF market_month >= 9 THEN 100
  ELSE IF market_month >= 7 THEN 200
  ELSE 400
year_end_bonus(market_month) ==
  IF market_month >= 11 THEN 400
  ELSE IF market_month >= 9 THEN 200
  ELSE IF market_month >= 7 THEN 100
  ELSE 0 - 200
\* the bonus of a query about the near term, in thousandths
\* (first one that prefers the late months)
near_term_bonus_Rising(market_month) ==
  IF market_month <= 7 THEN 0 - 100
  ELSE IF market_month <= 9 THEN 100
  ELSE 300
near_term_bonus(market_month) ==
  IF market_month <= 7 THEN 300
  ELSE IF market_month <= 9 THEN 100
  ELSE 0 - 100

has_year_context(query_lower) ==
  \E k \in 1..Len(year_2025_refs) : Contains(query_lower, year_2025_refs[k])
has_near_term_context(query_lower) ==
  \E k \in 1..Len(near_term_refs) : Contains(query_lower, near_term_refs[k])

\* time_context_bonus, in thousandths
time_context_bonus(query_lower, end_date) ==
  IF end_date.kind = "date" /\ end_date.month # 0 /\ end_date.year = 2025
    THEN IF has_year_context(query_lower) /\ ~has_near_term_context(query_lower)
           THEN year_end_bonus(end_date.month)
         ELSE IF has_near_term_context(query_lower)
           THEN near_term_bonus(end_date.month)
         ELSE 0
    ELSE 0

\* calculate_market_relevance(query, market): raised, or the score num/den
\* with den = 1000 * |query_terms| * max_len; each term below is given in
\* thousandths scaled by unit = den / 1000.
Relevance(query_lower, title_lower, category_lower, market, query_terms, title_terms, similarity) ==
  LET nq == Max2(1, Cardinality(query_terms))
      unit == nq * similarity.den
      exact_matches == query_terms \cap title_terms
      matched == Cardinality(exact_matches)
      has_ratio == query_terms # {} /\ title_terms # {}
      \* exact_match_ratio < 0.5
      ratio_below_half == 2 * matched < Cardinality(query_terms)
      phrase == IF Contains(title_lower, query_lower) THEN 800 * unit ELSE 0
      phrases == 500 * unit *
        Cardinality({k \in 1..Len(important_phrases) :
                       /\ Contains(query_lower, important_phrases[k])
                       /\ Contains(title_lower, important_phrases[k])})
      keywords ==
        IF ~has_ratio THEN 0
        ELSE (IF Cardinality(query_terms) > 2 /\ ratio_below_half
                THEN 400 * matched * similarity.den
                ELSE 600 * matched * similarity.den)
             + (IF matched >= 3 THEN 200 * unit ELSE 0)
      time == time_context_bonus(query_lower, market.end_date) * unit
      synonym_bonus ==
        Min2(100 * Hits(synonym_map, query_terms, title_lower, FALSE), 200) * unit
      category_bonus ==
        Min2(150 * Hits(category_map, query_terms, category_lower, TRUE), 200) * unit
      title_similarity ==
        IF 10 * similarity.num > 3 * similarity.den
          THEN 300 * similarity.num * nq ELSE 0
      before7 == phrase + phrases + keywords + time + synonym_bonus
                   + category_bonus + title_similarity
      short_query == Cardinality(query_terms) <= 2
      after7 == IF short_query /\ ratio_below_half
                  THEN (before7 * 7) \div 10 ELSE before7
      title_length == IF Cardinality(title_terms) < 10 THEN 100 * unit ELSE 0
      active == IF market.active THEN 50 * unit ELSE 0
  IN  IF short_query /\ ~has_ratio
        THEN [raised |-> TRUE, num |-> 0, den |-> 1]
        ELSE [raised |-> FALSE,
              num |-> Min2(after7 + title_length + active, 1000 * unit),
              den |-> 1000 * unit]

calculate_market_relevance(query, market) ==
  LET query_lower == strip(lower(query))
      title_lower == IF market.title = NoneText THEN <<>> ELSE lower(market.title)
      category_lower ==
        IF market.category = NoneText THEN <<>> ELSE lower(market.category)
  IN  Relevance(query_lower, title_lower, category_lower, market,
                findall_words(query_lower), findall_words(title_lower),
                levenshtein_ratio(query_lower, title_lower))

\* the texts used as queries, titles and categories
Text ==
  [\* ''
   q_empty |->
    <<>>,
   \* '?!'
   q_punctuation |->
    <<"?", "!">>,
   \* 'Bitcoin'
   q_bitcoin |->
    <<"B", "i", "t", "c", "o", "i", "n">>,
   \* 'this year'
   q_this_year |->
    <<"t", "h", "i", "s", " ", "y", "e", "a", "r">>,
   \* 'Fed rate cut soon'
   q_fed |->
    <<"F", "e", "d", " ", "r", "a", "t", "e", " ", "c", "u", "t",
      " ", "s", "o", "o", "n">>,
   \* 'Bitcoin reaching $200k this year'
   q_bitcoin_200k |->
    <<"B", "i", "t", "c", "o", "i", "n", " ", "r", "e", "a", "c",
      "h", "i", "n", "g", " ", "$", "2", "0", "0", "k", " ", "t",
      "h", "i", "s", " ", "y", "e", "a", "r">>,
   \* 'bitcoin price by june'
   q_bitcoin_june |->
    <<"b", "i", "t", "c", "o", "i", "n", " ", "p", "r", "i", "c",
      "e", " ", "b", "y", " ", "j", "u", "n", "e">>,
   \* 'taylor swift engagement date'
   q_taylor_swift |->
    <<"t", "a", "y", "l", "o", "r", " ", "s", "w", "i", "f", "t",
      " ", "e", "n", "g", "a", "g", "e", "m", "e", "n", "t", " ",
      "d", "a", "t", "e">>,
   \* 'Bitcoin price by june this year'
   q_june_this_year |->
    <<"B", "i", "t", "c", "o", "i", "n", " ", "p", "r", "i", "c",
      "e", " ", "b", "y", " ", "j", "u", "n", "e", " ", "t", "h",
      "i", "s", " ", "y", "e", "a", "r">>,
   \* 'Will Bitcoin reach $200,000 by end of 2025?'
   t_bitcoin_200k |->
    <<"W", "i", "l", "l", " ", "B", "i", "t", "c", "o", "i", "n",
      " ", "r", "e", "a", "c", "h", " ", "$", "2", "0", "0", ",",
      "0", "0", "0", " ", "b", "y", " ", "e", "n", "d", " ", "o",
      "f", " ", "2", "0", "2", "5", "?">>,
   \* 'Will Bitcoin hit $150,000 by June 2025?'
   t_bitcoin_150k |->
    <<"W", "i", "l", "l", " ", "B", "i", "t", "c", "o", "i", "n",
      " ", "h", "i", "t", " ", "$", "1", "5", "0", ",", "0", "0",
      "0", " ", "b", "y", " ", "J", "u", "n", "e", " ", "2", "0",
      "2", "5", "?">>,
   \* 'Will the Fed cut rates at the March 2025 FOMC meeting?'
   t_fed |->
    <<"W", "i", "l", "l", " ", "t", "h", "e", " ", "F", "e", "d",
      " ", "c", "u", "t", " ", "r", "a", "t", "e", "s", " ", "a",
      "t", " ", "t", "h", "e", " ", "M", "a", "r", "c", "h", " ",
      "2", "0", "2", "5", " ", "F", "O", "M", "C", " ", "m", "e",
      "e", "t", "i", "n", "g", "?">>,
   \* 'Will the Lakers win the NBA title over the Celtics in seven games'
   t_lakers |->
    <<"W", "i", "l", "l", " ", "t", "h", "e", " ", "L", "a", "k",
      "e", "r", "s", " ", "w", "i", "n", " ", "t", "h", "e", " ",
      "N", "B", "A", " ", "t", "i", "t", "l", "e", " ", "o", "v",
      "e", "r", " ", "t", "h", "e", " ", "C", "e", "l", "t", "i",
      "c", "s", " ", "i", "n", " ", "s", "e", "v", "e", "n", " ",
      "g", "a", "m", "e", "s">>,
   \* ''
   t_empty |->
    <<>>,
   \* 'Crypto'
   c_crypto |->
    <<"C", "r", "y", "p", "t", "o">>,
   \* 'economics'
   c_economics |->
    <<"e", "c", "o", "n", "o", "m", "i", "c", "s">>]
HQueries == {Text.q_empty,
             Text.q_punctuation,
             Text.q_bitcoin,
             Text.q_this_year,
             Text.q_fed,
             Text.q_bitcoin_200k,
             Text.q_bitcoin_june,
             Text.q_taylor_swift}
HTitles == {NoneText, Text.t_bitcoin_200k,
            Text.t_bitcoin_150k,
            Text.t_fed,
            Text.t_lakers,
            Text.t_empty}
HCategories == {NoneText, Text.c_crypto, Text.c_economics}
\* with one resolution month per branch of the time context bonus
HEndDates ==
  {NoDate, BadDate, Date(2024, 12)}
  \cup {Date(2025, m) : m \in {3, 7, 9, 10, 11, 12}}
HMarkets ==
  {[title |-> t, category |-> c, end_date |-> e, active |-> a] :
     t \in HTitles, c \in HCategories, e \in HEndDates, a \in BOOLEAN}

HInit == h = [pc |-> "idle"]

\* One call of calculate_market_relevance.
Score ==
  /\ h.pc = "idle"
  /\ \E q \in HQueries, m \in HMarkets :
       h' = [pc |-> "done", query |-> q, market |-> m,
             out |-> calculate_market_relevance(q, m)]
  /\ UNCHANGED NotH

HNext == Score

\* The same market scored once per resolution month.  The function has no
\* clock argument and reads no clock; the year of the call is drawn as part
\* of the environment.
TQueries == {Text.q_bitcoin, Text.q_this_year, Text.q_fed, Text.q_bitcoin_200k,
             Text.q_bitcoin_june, Text.q_june_this_year, Text.q_taylor_swift}
TTitles == {NoneText, Text.t_bitcoin_200k, Text.t_fed, Text.t_lakers}
TYears == {2025, 2026}
Months == 1..12

TInit == tc = [pc |-> "idle"]

\* calculate_market_relevance for one query and the twelve markets that
\* differ in the resolution month only.
ScoreMonths ==
  /\ tc.pc = "idle"
  /\ \E q \in TQueries, title \in TTitles, a \in BOOLEAN,
        year \in TYears, now \in TYears :
       tc' = [pc |-> "done", query |-> q, title |-> title, active |-> a,
             year |-> year, now_year |-> now,
             bonus |-> [m \in Months |->
                          time_context_bonus(strip(lower(q)), Date(year, m))],
             out |-> [m \in Months |->
                        calculate_market_relevance(q,
                          [title |-> title, category |-> Text.c_crypto,
                           end_date |-> Date(year, m), active |-> a])]]
  /\ UNCHANGED NotT

\* The same for a market without an end date: one score, whatever the month.
ScoreUndated ==
  /\ tc.pc = "idle"
  /\ \E q \in TQueries, title \in TTitles, a \in BOOLEAN, now \in TYears :
       \E r \in {calculate_market_relevance(q,
                   [title |-> title, category |-> Text.c_crypto,
                    end_date |-> NoDate, active |-> a])} :
         tc' = [pc |-> "done", query |-> q, title |-> title, active |-> a,
                year |-> 0, now_year |-> now,
                bonus |-> [m \in Months |->
                             time_context_bonus(strip(lower(q)), NoDate)],
                out |-> [m \in Months |-> r]]
  /\ UNCHANGED NotT

TNext == ScoreMonths \/ ScoreUndated

\* ======================================================================
\* search_markets (api/main.py), and search_markets, select_best_market
\* and analyze_query of DSPyEnhancedAIGGFlow
\* ======================================================================
\* a row of polymarket_markets with active = true
Row(id, title, category, end_date) ==
  [market_id |-> id, title |-> title, category |-> category,
   end_date |-> end_date, active |-> TRUE]
SRows ==
  {Row("m1", Text.t_bitcoin_200k, Text.c_crypto, Date(2025, 12)),
   Row("m2", Text.t_bitcoin_150k, Text.c_crypto, Date(2025, 6)),
   Row("m3", Text.t_fed, Text.c_economics, Date(2025, 3)),
   Row("m4", Text.t_lakers, NoneText, NoDate)}
\* the table contents: up to MaxRows distinct rows, in any order
Catalogs ==
  UNION {{rows \in [1..n -> SRows] : \A a, b \in 1..n : a # b => rows[a] # rows[b]} :
           n \in 0..MaxRows}
SQueries == {Text.q_punctuation, Text.q_bitcoin, Text.q_this_year,
             Text.q_bitcoin_200k, Text.q_taylor_swift}
\* limit of analyze_query's search
flow_limit == 10
SLimits == {1, 3 * flow_limit}

RECURSIVE GCD(_, _)
GCD(a, b) == IF b = 0 THEN a ELSE GCD(b, a % b)
\* a > b for two scores num / den
Greater(a, b) ==
  LET g == GCD(a.den, b.den)
  IN  a.num * (b.den \div g) > b.num * (a.den \div g)
\* list.sort(key=relevance_score, reverse=True): descending and stable
\* (first a sort that puts the later of two equal scores first)
RankByScore_LaterFirst(keys) ==
  [j \in 1..Len(keys) |->
     Cardinality({i \in 1..Len(keys) :
                    \/ Greater(keys[i], keys[j])
                    \/ (~Greater(keys[j], keys[i]) /\ i > j)}) + 1]
RankByScore(keys) ==
  [j \in 1..Len(keys) |->
     Cardinality({i \in 1..Len(keys) :
                    \/ Greater(keys[i], keys[j])
                    \/ (~Greater(keys[j], keys[i]) /\ i < j)}) + 1]
SortByScore(seq) ==
  CHOOSE out \in
    {[p \in 1..Len(seq) |-> seq[CHOOSE j \in 1..Len(seq) : rank[j] = p]] :
       rank \in {RankByScore([k \in 1..Len(seq) |-> seq[k].relevance_score])}} : TRUE

\* what the semantic branch of search_markets can meet: an exception while
\* the matcher is built, while the tables are read or inside
\* find_best_markets, or the matches find_best_markets returned (positions
\* in rows: at most limit of them, taken in table order or in reverse)
SemanticOutcomes(rows, limit) ==
  {[kind |-> k, matches |-> <<>>] : k \in {"constructor", "catalog_read", "matcher"}}
  \cup {[kind |-> "matches", matches |-> ms] :
          ms \in UNION {{[k \in 1..n |-> k], [k \in 1..n |-> Len(rows) + 1 - k]} :
                        n \in 0..Min2(limit, Len(rows))}}
\* the conversion loop reads match.score, which MarketMatch does not have,
\* for the first match whose id is found among the rows
ConversionRaises(rows, matches) == matches # <<>>

Response500 == [status |-> 500, markets |-> <<>>, total_count |-> 0]
Response200(ms, n) == [status |-> 200, markets |-> ms, total_count |-> n]

\* the scoring loop of the heuristic branch: per row its score
ScoreRows(q, rows) ==
  [k \in 1..Len(rows) |-> calculate_market_relevance(q, rows[k])]
\* relevance_score > 0.1
AboveFilter(score) == 10 * score.num > score.den
RECURSIVE Filter(_, _, _)
Filter(rows, scores, k) ==
  IF k > Len(rows) THEN <<>>
  ELSE (IF AboveFilter(scores[k])
          THEN <<[market_id |-> rows[k].market_id,
                  relevance_score |-> [num |-> scores[k].num, den |-> scores[k].den]]>>
          ELSE <<>>)
       \o Filter(rows, scores, k + 1)
\* the heuristic branch once the rows are read
HeuristicResponse(limit, rows, scores) ==
  IF \E k \in 1..Len(rows) : scores[k].raised THEN Response500
  ELSE LET scored_markets == SortByScore(Filter(rows, scores, 1))
       IN  Response200(Take(scored_markets, limit), Len(scored_markets))
heuristic_branch(q, limit, rows) ==
  CHOOSE r \in {HeuristicResponse(limit, rows, scores) :
                  scores \in {ScoreRows(q, rows)}} : TRUE

\* generic_keywords of the flow's search_markets
generic_keywords ==
  {<<"b", "i", "t", "c", "o", "i", "n">>, <<"t", "r", "u", "m", "p">>,
   <<"f", "e", "d">>, <<"r", "a", "t", "e">>,
   <<"e", "l", "e", "c", "t", "i", "o", "n">>}
\* use_llm as the flow computes it from the search terms
FlowUseLlm(search_terms) ==
  ~(/\ search_terms # <<>>
    /\ \A k \in 1..Len(search_terms) : search_terms[k] # " "
    /\ lower(search_terms) \in generic_keywords)
\* MarketRecord accepts a relevance_score in [0, 1] only
MarketRecordValid(m) ==
  0 <= m.relevance_score.num /\ m.relevance_score.num <= m.relevance_score.den
RECURSIVE ValidRecords(_)
ValidRecords(ms) ==
  IF ms = <<>> THEN <<>>
  ELSE (IF MarketRecordValid(Head(ms)) THEN <<Head(ms)>> ELSE <<>>)
       \o ValidRecords(Tail(ms))
\* the flow's search_markets, from the response to its request
FlowMarkets(response) ==
  IF response.status # 200 THEN <<>>
  ELSE ValidRecords(Take(response.markets, flow_limit))

\* what market_selector can answer: an exception, a confidence float()
\* rejects, or a confidence (in hundredths) and a selected id
NoAnswer == [kind |-> "none", confidence |-> 0, selected_id |-> ""]
Confidences == {0 - 10, 29, 30, 90, 150}
SelectorAnswers(ms) ==
  {[kind |-> k, confidence |-> 0, selected_id |-> ""] : k \in {"exception", "unparsable"}}
  \cup {[kind |-> "answer", confidence |-> c, selected_id |-> i] :
          c \in Confidences,
          i \in {ms[k].market_id : k \in 1..Len(ms)} \cup {"unknown"}}
\* select_best_market: the position of the returned market in markets, 0 for None
\* (first a selection that trusts the id it is given: an id outside the
\* list yields a record that is none of the list's, position Len(ms) + 1)
select_best_market_TrustsId(ms, answer) ==
  IF ms = <<>> THEN 0
  ELSE IF answer.kind # "answer" THEN 1
  ELSE IF Min2(100, Max2(0, answer.confidence)) < 30 THEN 0
  ELSE IF \E k \in 1..Len(ms) : ms[k].market_id = answer.selected_id
    THEN CHOOSE k \in 1..Len(ms) : ms[k].market_id = answer.selected_id
  ELSE Len(ms) + 1
select_best_market(ms, answer) ==
  IF ms = <<>> THEN 0
  ELSE IF answer.kind # "answer" THEN 1
  ELSE IF Min2(100, Max2(0, answer.confidence)) < 30 THEN 0
  ELSE IF Len(ms) = 1 THEN 1
  ELSE IF \E k \in 1..Len(ms) : ms[k].market_id = answer.selected_id
    THEN CHOOSE k \in 1..Len(ms) :
           /\ ms[k].market_id = answer.selected_id
           /\ \A j \in 1..(k - 1) : ms[j].market_id # answer.selected_id
  ELSE 1

\* except Exception in the use_llm branch: logged, use_llm turned off, and
\* the handler goes on below the branch
\* (first a handler that answers HTTP 500 instead)
SemanticFailure_Surfaced(request, o) ==
  [request EXCEPT !.pc = "responded", !.semantic = o, !.response = Response500]
SemanticFailure(request, o) ==
  [request EXCEPT !.pc = "heuristic", !.use_llm = FALSE, !.semantic = o]

SInit ==
  /\ api = [pc |-> "idle"]
  /\ flow = [pc |-> "idle"]

\* GET /markets/search arrives (from the flow, or from another client
\* while the flow has not ended).
SearchMarkets ==
  /\ api.pc = "idle"
  /\ flow.pc = "idle"
  /\ \E q \in SQueries, limit \in SLimits, use_llm \in BOOLEAN, rows \in Catalogs :
       api' = [pc |-> IF use_llm THEN "semantic" ELSE "heuristic",
               q |-> q, limit |-> limit, use_llm |-> use_llm, rows |-> rows,
               semantic |-> [kind |-> "not_run", matches |-> <<>>],
               heuristic |-> "not_run", response |-> Response500]
  /\ UNCHANGED <<flow, NotS>>

\* The use_llm branch: it returns the response, or any exception turns
\* use_llm off and the handler goes on to the heuristic branch.
SemanticBranch ==
  /\ api.pc = "semantic"
  /\ \E o \in SemanticOutcomes(api.rows, api.limit) :
       IF o.kind # "matches" \/ ConversionRaises(api.rows, o.matches)
         THEN api' = SemanticFailure(api, o)
         ELSE api' = [api EXCEPT !.pc = "responded", !.semantic = o,
                                 !.response = Response200(<<>>, Len(o.matches))]
  /\ UNCHANGED <<flow, NotS>>

\* The heuristic branch: any exception becomes HTTP 500.
HeuristicBranch ==
  /\ api.pc = "heuristic"
  /\ \E db_ok \in BOOLEAN :
       \E r \in {IF db_ok THEN heuristic_branch(api.q, api.limit, api.rows)
                          ELSE Response500} :
         api' = [api EXCEPT !.pc = "responded", !.response = r,
                            !.heuristic = IF ~db_ok THEN "catalog_read"
                                          ELSE IF r.status = 500 THEN "scoring"
                                          ELSE "returned"]
  /\ UNCHANGED <<flow, NotS>>

\* analyze_query, steps 1 and 2, on the response to its search request:
\* query_optimizer returned the search terms, the response is read (any
\* status but 200 raises and gives the empty list), select_best_market
\* runs on a non-empty list.  steps lists the calls that returned.
AnalyzeQuery ==
  /\ flow.pc = "idle"
  /\ api.pc = "responded"
  /\ api.limit = 3 * flow_limit
  /\ (api.semantic.kind # "not_run") = FlowUseLlm(api.q)
  /\ LET top_markets == FlowMarkets(api.response)
         searched == IF api.response.status = 200
                       THEN <<"query_optimizer", "search_response">>
                       ELSE <<"query_optimizer">>
     IN  IF top_markets = <<>>
           THEN flow' = [pc |-> "done", markets |-> <<>>, answer |-> NoAnswer,
                         selected |-> 0, steps |-> searched]
           ELSE \E answer \in SelectorAnswers(top_markets) :
                  flow' = [pc |-> "done", markets |-> top_markets, answer |-> answer,
                           selected |-> select_best_market(top_markets, answer),
                           steps |-> Append(searched, "select_best_market")]
  /\ UNCHANGED <<api, NotS>>

\* analyze_query when the query_optimizer call raises: the except branch of
\* the flow's search_markets returns the empty list before any request is
\* sent, and analyze_query returns None.
AnalyzeQueryOptimizerFails ==
  /\ flow.pc = "idle"
  /\ api.pc = "idle"
  /\ flow' = [pc |-> "done", markets |-> <<>>, answer |-> NoAnswer,
               selected |-> 0, steps |-> <<>>]
  /\ UNCHANGED <<api, NotS>>

\* analyze_query, steps 3 to 5, for the selected market: research_market,
\* generate_analysis (both return on failure too) and get_polymarket_url.
ResearchAndAnalyze ==
  /\ flow.pc = "done"
  /\ flow.selected # 0
  /\ flow' = [flow EXCEPT !.pc = "returned",
                          !.steps = @ \o <<"research_market", "generate_analysis",
                                           "get_polymarket_url">>]
  /\ UNCHANGED <<api, NotS>>

SNext ==
  \/ SearchMarkets
  \/ SemanticBranch
  \/ HeuristicBranch
  \/ AnalyzeQuery
  \/ AnalyzeQueryOptimizerFails
  \/ ResearchAndAnalyze

Init == MInit /\ VInit /\ SMInit /\ HInit /\ SInit /\ TInit

SpecMatcher == Init /\ [][MNext]_vars
\* The steps the interpreter and the thread pool take by themselves: a free
\* pool thread takes a queued task, as_completed yields a finished future,
\* the function returns after the loop.  A batch scoring call finishes
\* when the reasoning service answers; the code sets no timeout on it.
MFairness ==
  /\ WF_vars(\E b \in DOMAIN futures : WorkerStart(b))
  /\ WF_vars(\E b \in DOMAIN futures : Collect(b))
  /\ WF_vars(Return)
SpecMatcherLive == Init /\ [][MNext]_vars /\ MFairness
SpecV2 == Init /\ [][V2Next]_vars
SpecScoreMarket == Init /\ [][SMNext]_vars
SpecHeuristic == Init /\ [][HNext]_vars
SpecSearch == Init /\ [][SNext]_vars
SpecTemporal == Init /\ [][TNext]_vars

\* ---------------------------------------------------------------- claims
Done == m_pc = "done" /\ Len(markets) > 0
Batches == DOMAIN futures
BatchFailed(b) == Len(batch_calls[b]) > 0 /\ BatchCallFails(batch_calls[b][1])
BatchComplete(b) ==
  /\ Len(batch_calls[b]) > 0
  /\ batch_calls[b][1].kind = "list"
  /\ batch_calls[b][1].defect = "none"
EntriesOf(i) == {k \in 1..Len(all_scores) : all_scores[k].market = i}
InBatch(i, b) == \E k \in 1..Len(Batch(markets, b)) : Batch(markets, b)[k] = i
Ids == {markets[k] : k \in 1..Len(markets)}
SingleReasonings == {"single", "Error in scoring"}

\* C1: when the batched call of some batch fails (the other batches answering
\* complete lists), the score list before truncation holds exactly one entry
\* per input candidate, and every candidate of a failed batch was scored by
\* one individual call.
C1_FailedBatchRescored ==
  (Done /\ (\E b \in Batches : BatchFailed(b))
        /\ (\A b \in Batches : BatchFailed(b) \/ BatchComplete(b)))
  => /\ Len(all_scores) = Len(markets)
     /\ \A i \in Ids : Cardinality(EntriesOf(i)) = 1
     /\ \A b \in Batches : \A i \in Ids :
          (BatchFailed(b) /\ InBatch(i, b)) =>
             /\ single_calls[i] = 1
             /\ \A k \in EntriesOf(i) : all_scores[k].reasoning \in SingleReasonings

C1_Witness ==
  /\ Done
  /\ Cardinality(Batches) >= 2
  /\ \E b \in Batches : BatchFailed(b)
  /\ \E b \in Batches : BatchComplete(b)
  /\ \A b \in Batches : BatchFailed(b) \/ BatchComplete(b)
  /\ Len(all_scores) = Len(markets)

\* C2: for every answer of the batched call, a schema-invalid one included,
\* the number of scored candidates before truncation equals the number of
\* input candidates (each is scored from the batch or by the fallback).
C2_NoCandidateMissing ==
  Done => /\ Len(all_scores) = Len(markets)
          /\ \A i \in Ids : Cardinality(EntriesOf(i)) = 1

\* C8: the returned list is derived from the scores alone, exact ties in
\* input order, whatever the order in which the batches completed.
InputPosition(i) == CHOOSE k \in 1..Len(markets) : markets[k] = i
ByScoreThenInput(seq) ==
  SortDesc(seq, [k \in 1..Len(seq) |->
                  seq[k].score * (Len(markets) + 1)
                    - InputPosition(seq[k].market)])
C8_OrderIndependentOfCompletion ==
  Done => m_result = Take(ByScoreThenInput(all_scores), top_k)

\* C3: whatever the category-selection, relevance and tier-scoring calls
\* answer for a candidate (exception, unknown tier label, out-of-range
\* score, wrongly typed field), find_best_markets (V2) returns a list: no
\* exception leaves the call.
C3_NoCandidateAbortsCall == v_pc # "raised"

\* C6: the (tier, score) score_market returns lies within the band of the
\* tier returned: HIGH in [0.8, 1.0], MEDIUM in [0.4, 0.7], LOW in
\* [0.0, 0.3]; a raw score outside its tier's band is replaced by 0.9 /
\* 0.55 / 0.2, and a raw score inside it is returned as it is.
InBand(tier, score) ==
  \/ tier = "HIGH" /\ 80 <= score /\ score <= 100
  \/ tier = "MEDIUM" /\ 40 <= score /\ score <= 70
  \/ tier = "LOW" /\ 0 <= score /\ score <= 30
Midpoint(tier) == CASE tier = "HIGH" -> 90 [] tier = "MEDIUM" -> 55
                    [] tier = "LOW" -> 20
SelectionFailed ==
  /\ v_pc \in {"stage2", "done", "raised"}
  /\ v_calls[1].call = "select_categories" /\ v_calls[1].failed
C10_FailOpenKeepsEveryMarket ==
  SelectionFailed =>
    /\ v_selected = v_available
    /\ \A c \in DOMAIN v_mbc : \A k \in 1..Len(v_mbc[c]) :
         \E j \in 1..Len(v_candidates) :
           v_candidates[j].market_id = v_mbc[c][k].market_id

\* ---- calculate_market_relevance
\* C4: the score calculate_market_relevance returns lies in [0, 1], for
\* every query and every market record.
C4_ScoreInUnitInterval ==
  (h.pc = "done" /\ ~h.out.raised) =>
    (0 <= h.out.num /\ h.out.num <= h.out.den)

\* C5: calculate_market_relevance returns a score for every query and every
\* market record; it never raises.
C5_ScorerNeverRaises == h.pc = "done" => ~h.out.raised

\* ---- search_markets and select_best_market
\* relevance_score < 0.3
BelowMinConfidence(score) == 10 * score.num < 3 * score.den
\* the clamped confidence of a selector answer is below 0.3
ConfidenceBelowMin(answer) ==
  answer.kind = "answer" /\ Min2(100, Max2(0, answer.confidence)) < 30
\* the except branch of the use_llm branch was taken
SemanticRaised ==
  \/ api.semantic.kind \in {"constructor", "catalog_read", "matcher"}
  \/ api.semantic.kind = "matches" /\ ConversionRaises(api.rows, api.semantic.matches)
\* a response of the heuristic branch is ranked: rows of the table, each
\* scored above 0.1, in non-increasing score order, at most limit of them
Ranked(response, request) ==
  /\ response.status = 200
  /\ Len(response.markets) <= request.limit
  /\ Len(response.markets) <= response.total_count
  /\ \A k \in 1..Len(response.markets) :
       /\ AboveFilter(response.markets[k].relevance_score)
       /\ \E r \in 1..Len(request.rows) :
            request.rows[r].market_id = response.markets[k].market_id
       /\ k > 1 => ~Greater(response.markets[k].relevance_score,
                            response.markets[k - 1].relevance_score)

\* C7: when the best relevance score among the candidates, or the
\* selector's confidence, is below 0.3, select_best_market returns no
\* market.
C7_BelowThresholdNeverSelected ==
  (/\ flow.pc = "done"
   /\ flow.markets # <<>>
   /\ \/ \A k \in 1..Len(flow.markets) :
           BelowMinConfidence(flow.markets[k].relevance_score)
      \/ ConfidenceBelowMin(flow.answer))
    => flow.selected = 0

\* C9 as stated: after an exception in the use_llm branch the request is
\* answered with the ranked result of the heuristic branch.
C9_FallbackReturnsRanking ==
  (api.pc = "responded" /\ SemanticRaised) => Ranked(api.response, api)

\* C9, amended: an exception in the use_llm branch is never the response;
\* the heuristic branch runs in the same request and its outcome is the
\* response: its ranked result, or HTTP 500 when the heuristic branch
\* itself fails.
C9_FallbackOutcomeIsResponse ==
  /\ (api.pc = "heuristic" /\ SemanticRaised) => ~api.use_llm
  /\ (api.pc = "responded" /\ SemanticRaised) =>
       /\ api.heuristic # "not_run"
       /\ api.heuristic = "returned" => Ranked(api.response, api)
       /\ api.heuristic # "returned" => api.response = Response500
C9_Witness ==
  /\ api.pc = "responded"
  /\ SemanticRaised
  /\ api.semantic.kind = "matches"
  /\ api.heuristic = "returned"
  /\ Len(api.response.markets) >= 2

\* ---- LLMMarketMatcherV2.find_best_markets, stage 2
\* C11: a candidate whose score_market call failed has an entry LOW / 0.1 /
\* scoring error in the match list (the list before truncation).
C11_ScoringFailureKeepsCandidate ==
  \A k \in 1..Len(v_calls) :
     (v_calls[k].call = "score_market" /\ v_calls[k].failed) =>
       \E j \in 1..Len(v_matches) :
          /\ v_matches[j].market_id = v_calls[k].market
          /\ v_matches[j].relevance_tier = "LOW"
          /\ v_matches[j].score = 10
          /\ v_matches[j].reasoning = "Scoring error"

\* the stage-2 iteration being taken issues a relevance call that fails
RelevanceCallFails ==
  /\ Len(v_calls') > Len(v_calls)
  /\ v_calls'[Len(v_calls) + 1].call = "check_relevance"
  /\ v_calls'[Len(v_calls) + 1].failed
\* the number of calls of one kind issued so far
CallCount(kind) ==
  Cardinality({k \in 1..Len(v_calls) : v_calls[k].call = kind})

\* C12: an iteration whose relevance call fails issues no scoring call and
\* appends no match, and the loop goes on to the next candidate; a call
\* that returns has checked every candidate and returns only matches that
\* were appended.
C12_RelevanceFailureExcludes ==
  /\ [][RelevanceCallFails =>
          /\ Len(v_calls') = Len(v_calls) + 1
          /\ v_matches' = v_matches
          /\ v_pc' = "stage2"
          /\ v_i' = v_i + 1]_vars
  /\ [](v_pc = "done" =>
          /\ CallCount("check_relevance") = Len(v_candidates)
          /\ Len(v_matches) = CallCount("score_market")
          /\ v_result = Take(v_matches, v_top_k))
C12_Witness ==
  /\ v_pc = "done"
  /\ Len(v_candidates) = 2
  /\ v_calls[2].call = "check_relevance" /\ v_calls[2].failed
  /\ v_calls[2].market = v_candidates[1].market_id
  /\ Len(v_result) = 1
  /\ v_result[1].market_id = v_candidates[2].market_id

\* ---- LLMMarketMatcher.find_best_markets, fallback and batching
\* the batched call of batch b raised or its answer was no JSON
BatchCallRaised(b) ==
  /\ Len(batch_calls[b]) > 0
  /\ batch_calls[b][1].kind \in {"exception", "invalid_json"}
\* the results of batch b could not be mapped back (an unhashable id)
BatchMapRaised(b) ==
  futures[b].state = "collected" /\ ScoreMapRaises(futures[b].result)

\* C13: an individual scoring call is issued for a candidate only when the
\* batch holding that candidate failed (its batched call raised, its answer
\* did not parse, or its results could not be mapped back); the candidates
\* of every other batch have no individual call.
C13_RescoringStaysInFailedBatch ==
  \A b \in Batches :
     (BatchCallRaised(b) \/ BatchMapRaised(b))
     \/ LET batch == Batch(markets, b)
        IN  \A k \in 1..Len(batch) : single_calls[batch[k]] = 0
C13_Witness ==
  /\ Done
  /\ Cardinality(Batches) >= 2
  /\ \E b \in Batches :
       /\ BatchCallRaised(b)
       /\ \A k \in 1..Len(Batch(markets, b)) :
            single_calls[Batch(markets, b)[k]] = 1
  /\ \E b \in Batches :
       /\ ~BatchCallRaised(b) /\ ~BatchMapRaised(b)
       /\ \A k \in 1..Len(Batch(markets, b)) :
            single_calls[Batch(markets, b)[k]] = 0
\* the positions of markets held by batch b
PositionsOf(b) == {20 * (b - 1) + j : j \in 1..Len(Batch(markets, b))}

\* C14: the batches hold at most 20 candidates each and together hold every
\* position of the candidate list exactly once, and at no moment more than
\* 3 batch scoring calls are running.
C14_BatchesPartitionBoundedPool ==
  m_pc # "idle" =>
    /\ Cardinality(Running) <= 3
    /\ \A b \in Batches :
         LET batch == Batch(markets, b)
         IN  /\ Len(batch) >= 1 /\ Len(batch) <= 20
             /\ \A j \in 1..Len(batch) : batch[j] = markets[20 * (b - 1) + j]
    /\ UNION {PositionsOf(b) : b \in Batches} = 1..Len(markets)
C14_Witness ==
  /\ m_pc = "collecting"
  /\ Cardinality(Batches) > 3
  /\ Cardinality(Running) = 3
  /\ \E b \in Batches : futures[b].state = "pending"
\* C15: every call of find_best_markets returns, also when the scoring
\* call of a batch never answers.
C15_AlwaysReturns == (m_pc = "collecting") ~> (m_pc = "done")

\* ---------------------------------------------------------------------
\* Time-sensitive scoring (calculate_market_relevance, time context)
\* ---------------------------------------------------------------------

\* The scorer's outcome for the later month is at least its outcome for the
\* earlier one: the same failure, or a score that is not smaller.
NotLower(later, earlier) ==
  IF earlier.raised \/ later.raised THEN earlier.raised /\ later.raised
  ELSE ~Greater(earlier, later)

\* Some pair of months of the scored year is told apart by the score.
LaterScoresHigher ==
  \E m1, m2 \in Months :
    m1 < m2 /\ ~tc.out[m1].raised /\ ~tc.out[m2].raised
            /\ Greater(tc.out[m2], tc.out[m1])
EarlierScoresHigher ==
  \E m1, m2 \in Months :
    m1 < m2 /\ ~tc.out[m1].raised /\ ~tc.out[m2].raised
            /\ Greater(tc.out[m1], tc.out[m2])

\* C16 as stated: for a query with a year-end qualifier and two markets that
\* differ only in the resolution month of the same year, the later market
\* scores at least as high as the earlier one.
C16_YearEndMonotone ==
  (tc.pc = "done" /\ has_year_context(strip(lower(tc.query))))
    => \A m1, m2 \in Months : m1 < m2 => NotLower(tc.out[m2], tc.out[m1])

\* C16 amended: the same for a query with a year-end qualifier and no
\* near-term qualifier (the near-term qualifier takes precedence).
C16_YearEndMonotoneWithoutNearTerm ==
  (tc.pc = "done" /\ has_year_context(strip(lower(tc.query)))
                  /\ ~has_near_term_context(strip(lower(tc.query))))
    => \A m1, m2 \in Months : m1 < m2 => NotLower(tc.out[m2], tc.out[m1])

\* A "this year" query scored a 2025 market, and the later months score
\* strictly higher than the earlier ones.
C16_Witness ==
  /\ tc.pc = "done"
  /\ has_year_context(strip(lower(tc.query)))
  /\ ~has_near_term_context(strip(lower(tc.query)))
  /\ tc.year = 2025
  /\ LaterScoresHigher

\* C17: for a query with a near-term qualifier and two markets that differ
\* only in the resolution month of the same year, the earlier market scores
\* at least as high as the later one.
C17_NearTermMonotone ==
  (tc.pc = "done" /\ has_near_term_context(strip(lower(tc.query))))
    => \A m1, m2 \in Months : m1 < m2 => NotLower(tc.out[m1], tc.out[m2])

\* A "by June" query scored a 2025 market, and the earlier months score
\* strictly higher than the later ones.
C17_Witness ==
  /\ tc.pc = "done"
  /\ has_near_term_context(strip(lower(tc.query)))
  /\ tc.year = 2025
  /\ EarlierScoresHigher

\* The query carries a temporal qualifier (year-end or near-term).
HasTemporalQualifier ==
  \/ has_year_context(strip(lower(tc.query)))
  \/ has_near_term_context(strip(lower(tc.query)))

\* C18: the temporal term is added exactly when the query has a temporal
\* qualifier and the market resolves in the calendar year of the reference
\* date; without a qualifier, without an end date (year 0) or for another
\* year no term is added (stated for the calls that return a score).
C18_TermRelativeToNow ==
  tc.pc = "done" =>
    \A m \in Months :
      ~tc.out[m].raised =>
        ((tc.bonus[m] # 0) <=> (HasTemporalQualifier /\ tc.year = tc.now_year))

\* ---------------------------------------------------------------------
\* Queries unrelated to every candidate (search_markets, heuristic path)
\* ---------------------------------------------------------------------

\* The query has no lexical relation to the market: no shared token, no
\* curated phrase in both, no synonym hit and no category hit.
NoLexicalRelation(q, market) ==
  LET query_lower == strip(lower(q))
      title_lower == IF market.title = NoneText THEN <<>> ELSE lower(market.title)
      category_lower ==
        IF market.category = NoneText THEN <<>> ELSE lower(market.category)
      query_terms == findall_words(query_lower)
  IN  /\ query_terms \cap findall_words(title_lower) = {}
      /\ ~Contains(title_lower, query_lower)
      /\ \A k \in 1..Len(important_phrases) :
           ~(/\ Contains(query_lower, important_phrases[k])
             /\ Contains(title_lower, important_phrases[k]))
      /\ Hits(synonym_map, query_terms, title_lower, FALSE) = 0
      /\ Hits(category_map, query_terms, category_lower, TRUE) = 0

\* The heuristic path answered a query that is unrelated to every one of
\* the candidates it scored.
UnrelatedQueryAnswered ==
  /\ api.pc = "responded"
  /\ api.heuristic = "returned"
  /\ api.rows # <<>>
  /\ \A k \in 1..Len(api.rows) : NoLexicalRelation(api.q, api.rows[k])

\* relevance_score < 0.3
BelowConfident(score) == 10 * score.num < 3 * score.den

\* C19: a query without lexical relation to any candidate ends in "no
\* confident match": no market is reported, and the best score is below 0.3.
C19_UnrelatedQueryNoMatch ==
  UnrelatedQueryAnswered =>
    /\ api.response.markets = <<>>
    /\ api.response.total_count = 0
    /\ \A k \in 1..Len(api.response.markets) :
         BelowConfident(api.response.markets[k].relevance_score)

\* ---------------------------------------------------------------------
\* The supplied market records (LLMMarketMatcherV2.find_best_markets)
\* ---------------------------------------------------------------------

\* C20: a matching call leaves every supplied market record unchanged: no
\* step of find_best_markets changes a field of a market of
\* markets_by_category.
C20_SuppliedMarketsUnchanged ==
  [][v_pc # "idle" => v_mbc' = v_mbc]_vars

\* ---------------------------------------------------------------------
\* A matching call without candidates
\* ---------------------------------------------------------------------

\* No market was supplied in markets_by_category.
NoMarketSupplied == \A c \in DOMAIN v_mbc : v_mbc[c] = <<>>

\* The call has zero candidates: none was supplied, or the gathering of
\* stage 1 found none in the selected categories.
ZeroCandidates ==
  /\ v_pc # "idle"
  /\ NoMarketSupplied \/ (v_pc # "stage1" /\ v_candidates = <<>>)

\* C21: a matching call given zero candidates returns an empty result,
\* raises no exception and issues no relevance or scoring call.
C21_NoCandidatesEmptyResult ==
  ZeroCandidates =>
    /\ v_pc # "raised"
    /\ v_matches = <<>>
    /\ v_result = <<>>
    /\ CallCount("check_relevance") = 0
    /\ CallCount("score_market") = 0

\* The call returned without a supplied market although the category
\* selector named a category.
C21_Witness ==
  /\ v_pc = "done"
  /\ NoMarketSupplied
  /\ v_selected # <<>>
  /\ v_result = <<>>

\* The same for LLMMarketMatcher.find_best_markets: an empty list returns
\* at once, before analyze_query and before any batch is formed.
EmptyListReturnsAtOnce ==
  (m_pc # "idle" /\ markets = <<>>) =>
    /\ m_pc = "done"
    /\ m_result = <<>>
    /\ all_scores = <<>>
    /\ query_context = "none"
    /\ DOMAIN batch_calls = {}

\* ---------------------------------------------------------------------
\* The returned list (LLMMarketMatcher.find_best_markets)
\* ---------------------------------------------------------------------

\* how often an entry occurs in a list
Occurrences(seq, e) == Cardinality({k \in 1..Len(seq) : seq[k] = e})
\* the scored entries that are not returned
LeftOut ==
  {all_scores[k] : k \in 1..Len(all_scores)} \ 
    {e \in {m_result[k] : k \in 1..Len(m_result)} :
       Occurrences(m_result, e) >= Occurrences(all_scores, e)}

\* C22: the returned list is in non-increasing score order, has length
\* min(top_k, number of scored candidates), consists of scored candidates,
\* and no candidate left out scores strictly higher than a returned one.
C22_TopKByScore ==
  m_pc = "done" =>
    /\ \A p, q \in 1..Len(m_result) :
         p < q => m_result[p].score >= m_result[q].score
    /\ Len(m_result) = Min2(top_k, Len(all_scores))
    /\ \A k \in 1..Len(m_result) :
         Occurrences(m_result, m_result[k]) <= Occurrences(all_scores, m_result[k])
    /\ \A e \in LeftOut : \A k \in 1..Len(m_result) : e.score <= m_result[k].score

\* A call returned fewer entries than it scored, in strictly decreasing
\* order somewhere, and left out an entry that scores strictly lower.
C22_Witness ==
  /\ m_pc = "done"
  /\ Len(all_scores) > top_k
  /\ top_k > 1
  /\ m_result[1].score > m_result[Len(m_result)].score
  /\ \E e \in LeftOut : e.score < m_result[Len(m_result)].score

\* ---------------------------------------------------------------------
\* Query-context extraction (LLMMarketMatcher.analyze_query)
\* ---------------------------------------------------------------------

\* The query_analyzer call failed or answered with malformed output.
ContextExtractionFailed ==
  context_answer \in {"exception", "not_splittable", "rejected_field"}

Called(step) == \E k \in 1..Len(flow.steps) : flow.steps[k] = step
\* The pipeline states the call passed through, in order: the context is
\* extracted when query_optimizer returned, the candidates are scored when
\* the search response was read, the call is rejected when it returned None
\* after that, and the downstream steps are research and analysis.
PipelineTrace ==
  <<"RECEIVED">>
  \o (IF Called("query_optimizer") THEN <<"CONTEXT_EXTRACTED">> ELSE <<>>)
  \o (IF Called("search_response") THEN <<"CANDIDATES_SCORED">> ELSE <<>>)
  \o (IF flow.selected # 0 THEN <<"SELECTED">>
      ELSE IF Called("search_response") THEN <<"REJECTED_LOW_CONFIDENCE">>
      ELSE <<>>)
  \o (IF Called("research_market") THEN <<"DOWNSTREAM">> ELSE <<>>)
AllowedTraces ==
  {<<"RECEIVED">> \o c \o <<"CANDIDATES_SCORED">> \o e \o d :
     c \in {<<>>, <<"CONTEXT_EXTRACTED">>},
     e \in {<<"SELECTED">>, <<"REJECTED_LOW_CONFIDENCE">>},
     d \in {<<>>, <<"DOWNSTREAM">>}}
  \ {<<"RECEIVED">> \o c \o <<"CANDIDATES_SCORED", "REJECTED_LOW_CONFIDENCE",
                                "DOWNSTREAM">> :
       c \in {<<>>, <<"CONTEXT_EXTRACTED">>}}

\* C24: every pipeline invocation passes through RECEIVED, optionally
\* CONTEXT_EXTRACTED, then CANDIDATES_SCORED, and ends in exactly one of
\* SELECTED or REJECTED_LOW_CONFIDENCE; no state is entered twice, and
\* research and analysis start only from SELECTED.
C24_PipelineStates ==
  flow.pc \in {"done", "returned"} => PipelineTrace \in AllowedTraces

\* ---------------------------------------------------------------------
\* Equal scores in the heuristic ranking (search_markets)
\* ---------------------------------------------------------------------

\* the position of a market in the rows the request read
RowPosition(id) == CHOOSE k \in 1..Len(api.rows) : api.rows[k].market_id = id
SameScore(a, b) == ~Greater(a, b) /\ ~Greater(b, a)
HeuristicRanked == api.pc = "responded" /\ api.heuristic = "returned"

\* C25: in the heuristic path two markets with exactly equal scores appear
\* in the result in the order they have in the input list.
C25_TiesKeepInputOrder ==
  HeuristicRanked =>
    \A p, q \in 1..Len(api.response.markets) :
      (/\ p < q
       /\ SameScore(api.response.markets[p].relevance_score,
                    api.response.markets[q].relevance_score))
        => RowPosition(api.response.markets[p].market_id)
             < RowPosition(api.response.markets[q].market_id)

\* Two markets with equal scores were returned in their input order, which
\* is not the order of their ids.
C25_Witness ==
  /\ HeuristicRanked
  /\ Len(api.response.markets) = 2
  /\ SameScore(api.response.markets[1].relevance_score,
               api.response.markets[2].relevance_score)
  /\ api.response.markets[1].market_id = "m2"
  /\ api.response.markets[2].market_id = "m1"
  /\ Len(api.rows) = 3

\* ---------------------------------------------------------------------
\* Relevance check before tier scoring (LLMMarketMatcherV2, stage 2)
\* ---------------------------------------------------------------------

\* C26: within one find_best_markets call the tier-scoring call is issued
\* for a candidate only directly after the relevance check of that same
\* candidate returned true; it is not issued after a check that rejected
\* the candidate or failed.
C26_ScoredOnlyAfterRelevant ==
  \A k \in 1..Len(v_calls) :
    v_calls[k].call = "score_market" =>
      /\ k > 1
      /\ v_calls[k - 1].call = "check_relevance"
      /\ v_calls[k - 1].market = v_calls[k].market
      /\ ~v_calls[k - 1].failed
      /\ v_calls[k - 1].returned

\* One candidate was rejected by its relevance check and not scored, and
\* the next one was found relevant and scored.
C26_Witness ==
  /\ v_pc = "done"
  /\ Len(v_calls) = 4
  /\ v_calls[2].call = "check_relevance" /\ ~v_calls[2].failed
  /\ ~v_calls[2].returned
  /\ v_calls[3].call = "check_relevance" /\ v_calls[3].returned
  /\ v_calls[4].call = "score_market" /\ v_calls[4].market = v_calls[3].market

\* ---------------------------------------------------------------------
\* The selected market (DSPyEnhancedAIGGFlow.select_best_market)
\* ---------------------------------------------------------------------

\* C27: select_best_market returns no market or a member of the list it
\* was given, whatever the selection call answers.
C27_SelectionFromCandidates ==
  flow.pc \in {"done", "returned"} =>
    \/ flow.selected = 0
    \/ \E k \in 1..Len(flow.markets) :
         /\ flow.selected = k
         /\ flow.answer.kind = "answer" =>
              (\/ flow.markets[k].market_id = flow.answer.selected_id
               \/ Len(flow.markets) = 1
               \/ \A j \in 1..Len(flow.markets) :
                    flow.markets[j].market_id # flow.answer.selected_id)

\* The selection call named, with high confidence, an id that is not in a
\* list of several markets, and the first market of the list was returned.
C27_Witness ==
  /\ flow.pc = "done"
  /\ Len(flow.markets) > 1
  /\ flow.answer.kind = "answer"
  /\ flow.answer.selected_id = "unknown"
  /\ flow.answer.confidence >= 30
  /\ flow.selected = 1

\* ---------------------------------------------------------------------
\* The response of the LLM path (search_markets, use_llm=true)
\* ---------------------------------------------------------------------

\* The matcher completed without error and returned at least one match.
MatcherReturnedMatches ==
  /\ api.pc \in {"heuristic", "responded"}
  /\ api.semantic.kind = "matches"
  /\ api.semantic.matches # <<>>

\* C28: when the LLM matcher completes without error and returns at least
\* one match, the heuristic path is not run and the response consists of
\* exactly the matched markets, in the matcher's order.
C28_LlmMatchesAreTheResponse ==
  MatcherReturnedMatches =>
    /\ api.pc = "responded"
    /\ api.heuristic = "not_run"
    /\ api.response.status = 200
    /\ Len(api.response.markets) = Len(api.semantic.matches)
    /\ \A k \in 1..Len(api.semantic.matches) :
         api.response.markets[k].market_id
           = api.rows[api.semantic.matches[k]].market_id

\* ---------------------------------------------------------------------
\* Individual re-scoring (LLMMarketMatcher, the two fallbacks)
\* ---------------------------------------------------------------------

\* C29: within one find_best_markets call each candidate receives at most
\* one individual scoring call, the fallback inside score_markets_batch and
\* the fallback of the collection loop never both re-score the same batch,
\* and each candidate has at most one entry in the score list.
C29_AtMostOneIndividualCall ==
  /\ \A i \in DOMAIN single_calls : single_calls[i] <= 1
  /\ \A b \in DOMAIN futures : ~(BatchCallRaised(b) /\ BatchMapRaised(b))
  /\ \A i \in DOMAIN single_calls : Cardinality(EntriesOf(i)) <= 1

\* A call returned after the fallback inside score_markets_batch re-scored
\* one batch and the fallback of the collection loop re-scored another.
C29_Witness ==
  /\ m_pc = "done"
  /\ \E a, b \in DOMAIN futures :
       /\ a # b
       /\ BatchCallRaised(a) /\ ~BatchMapRaised(a)
       /\ BatchMapRaised(b) /\ ~BatchCallRaised(b)
  /\ \A i \in DOMAIN single_calls : single_calls[i] = 1
  /\ Len(all_scores) = Len(markets)

\* ---------------------------------------------------------------------
\* Market ids in the result (LLMMarketMatcherV2.find_best_markets)
\* ---------------------------------------------------------------------

\* C30: the result of find_best_markets contains each market id at most
\* once, whatever list of categories the category selector returns (the
\* supplied markets have unique ids).
C30_ResultIdsUnique ==
  v_pc = "done" =>
    \A p, q \in 1..Len(v_result) :
      p # q => v_result[p].market_id # v_result[q].market_id

====
